---- MODULE Spec2Model ----
(***************************************************************************)
(* Model of the StudyWithMe backend (src/server/index.js): the shared      *)
(* inputs/ and outputs/ workspace, the /api/upload, /api/run, /api/reset   *)
(* and /api/download handlers, the candidate-interpreter retry chain of    *)
(* /api/run and the best-effort history recorder.                          *)
(***************************************************************************)
EXTENDS Integers, Sequences, FiniteSets, TLC

\* ------------------------------------------------------------------ bounds
MaxUploads == 2      \* /api/upload requests issued in one behaviour
MaxRuns == 1         \* /api/run requests issued in one behaviour
MaxData == 1         \* stdout/stderr chunks one subprocess emits
MaxTexts == 3        \* text runs in the document a preview reads
MaxPage == 3         \* largest page number a history request asks for
MaxEntries == 15     \* history entries one user owns when the server starts

\* --------------------------------------------------------------- constants
UploadIds == 1..MaxUploads
RunIds == 1..MaxRuns
InNames == {"a.pdf", "n.docx"}
SUMMARIES == "summaries.docx"
FLASHCARDS == "flashcards.docx"
FORMULA_SHEET == "formula_sheet.docx"
Artifacts == {SUMMARIES, FLASHCARDS, FORMULA_SHEET}
Tokens == {"none", "bad", "u1"}
ExitCodes == {0, 2}
ENOENT == 0 - 2
Streams == {"stdout", "stderr"}
Absent == 0
DEFAULT_LIMIT == 10
MAX_LIMIT == 50

VARIABLES
  inputsExists,  \* fs.existsSync(INPUTS_DIR)
  inputs,        \* INPUTS_DIR: file name -> job that stored it (Absent: no file)
  outputs,       \* OUTPUTS_DIR: artifact name -> job that wrote it (Absent: no file)
  job,           \* number of the most recent job (1 + uploads started)
  overlap,       \* an earlier job was still writing when the most recent upload began
  up,            \* per upload request: pc, files, pending, job, clean
  run,           \* per run request: pc, auth, job
  responded,     \* per run request: the closure flag of line 251
  child,         \* per run request: the subprocesses spawned so far, in order
  res,           \* per run request: the HTTP responses sent, in order
  readyState,    \* mongoose.connection.readyState (0 disconnected, 1 connected, 2 connecting)
  histPending,   \* run requests whose History.create has not settled yet
  history,       \* the History collection: sequence of [userId, run, timestamp]
  dl,            \* the last /api/download answer
  pv,            \* the last preview answer (the three HTML previews and flashcards-json)
  api,           \* the last answer of an auth or history endpoint
  users,         \* the User collection: the registered e-mail addresses
  env            \* the deployment: .venv interpreters, PYTHON_EXEC, platform, installed

fsVars == <<inputsExists, inputs, outputs, job, overlap>>
runVars == <<run, responded, child, res>>
histVars == <<readyState, histPending, history>>
reqVars == <<pv, api, users, env>>
vars == <<inputsExists, inputs, outputs, job, overlap, up, run, responded, child, res,
          readyState, histPending, history, dl, pv, api, users, env>>

\* ------------------------------------------------------------- file system
Present(dir) == {n \in DOMAIN dir : dir[n] # Absent}

\* emptyDirectory returning before it removes anything
emptyDirectoryKeepsEntries(dir) == dir

\* lines 62-76: every entry of an existing directory is removed, the directory stays
emptyDirectory(dir) == [n \in DOMAIN dir |-> Absent]

\* an upload still storing its files, or a run request with a subprocess still open
ActiveWriter ==
  \/ \E u \in UploadIds : up[u].pc = "storing"
  \/ \E r \in RunIds : \E i \in 1..Len(child[r]) : child[r][i].state # "closed"

\* every upload that is between its clearing step and its response loses "clean"
Disturbed(except) ==
  [u \in UploadIds |->
     IF u # except /\ up[u].pc = "storing" THEN [up[u] EXCEPT !.clean = FALSE] ELSE up[u]]

\* ------------------------------------------------------------------- auth
\* lines 130-138: req.auth is set only when the cookie token verifies
attachAuthIfPresent(token) == IF token = "u1" THEN 1 ELSE 0

\* -------------------------------------------------------------------- init
NoUpload == [pc |-> "new", files |-> {}, pending |-> {}, job |-> 0, clean |-> TRUE]
NoRun == [pc |-> "new", auth |-> 0, job |-> 0]
NoDownload == [name |-> <<>>, status |-> 0, file |-> <<>>]
NoPreview == [endpoint |-> "none", status |-> 0]
NoAnswer == [endpoint |-> "none", status |-> 0]
\* lines 239-240: the two interpreters of a local .venv
venvWin == ".venv/Scripts/python.exe"
venvNix == ".venv/bin/python"

\* the values PYTHON_EXEC takes: unset, blank, and a path with blanks around it
PythonExecs == {"", " ", " pypy3 "}

\* line 243: process.env.PYTHON_EXEC.trim()
trimmed(value) ==
  CASE value = " " -> ""
    [] value = " pypy3 " -> "pypy3"
    [] OTHER -> value

\* the deployments: .venv interpreters present or not, PYTHON_EXEC, the platform
Envs ==
  [venvWin : BOOLEAN, venvNix : BOOLEAN, PYTHON_EXEC : PythonExecs,
   platform : {"linux", "win32"}]

\* a deployment without .venv and without PYTHON_EXEC, on a platform other than win32
NoEnv == [venvWin |-> FALSE, venvNix |-> FALSE, PYTHON_EXEC |-> "", platform |-> "linux"]

\* the server process after start-up: no request received yet
InitServer ==
  /\ inputsExists = TRUE
  /\ inputs \in {[n \in InNames |-> Absent], [n \in InNames |-> 1]}
  /\ outputs \in {[a \in Artifacts |-> Absent], [a \in Artifacts |-> 1]}
  /\ job = 1
  /\ overlap = FALSE
  /\ up = [u \in UploadIds |-> NoUpload]
  /\ run = [r \in RunIds |-> NoRun]
  /\ responded = [r \in RunIds |-> FALSE]
  /\ child = [r \in RunIds |-> <<>>]
  /\ res = [r \in RunIds |-> <<>>]
  /\ readyState \in {0, 2}
  /\ histPending = {}
  /\ dl = NoDownload
  /\ pv = NoPreview
  /\ api = NoAnswer

\* an empty database and the plain deployment
Init ==
  /\ InitServer
  /\ history = <<>>
  /\ users = {}
  /\ env = NoEnv

\* the server started without MONGODB_URI (line 88)
InitNoDb == Init /\ readyState = 0

\* the account of user 1, registered in an earlier life of the server
User1 == [email |-> "u1@x", password |-> "pw"]

\* uploaded files wait in inputs/ of any deployment; no database is configured
InitCandidates ==
  /\ InitServer
  /\ inputs = [n \in InNames |-> 1]
  /\ outputs = [a \in Artifacts |-> Absent]
  /\ readyState = 0
  /\ history = <<>>
  /\ users = {}
  /\ env \in Envs

\* uploaded files wait in inputs/, and the account of user 1 may exist already
InitAccounts ==
  /\ InitServer
  /\ inputs = [n \in InNames |-> 1]
  /\ outputs = [a \in Artifacts |-> Absent]
  /\ history = <<>>
  /\ users \in {{}, {User1}}
  /\ env = NoEnv

\* a collection in which user 1 owns n entries, each preceded by an entry of user 2
\* when others holds; entries are stored in the order of their timestamps
StoredHistory(n, others) ==
  [k \in 1..(IF others THEN 2 * n ELSE n) |->
     [userId |-> IF others /\ k % 2 = 1 THEN 2 ELSE 1, run |-> 0, timestamp |-> k]]

\* the database holds the history of earlier lives of the server
InitHistory ==
  /\ InitServer
  /\ inputs = [n \in InNames |-> Absent]
  /\ outputs = [a \in Artifacts |-> Absent]
  /\ readyState = 2
  /\ history \in {StoredHistory(n, others) : n \in 0..MaxEntries, others \in BOOLEAN}
  /\ users = {User1}
  /\ env = NoEnv

\* ------------------------------------------------------------ /api/upload
\* the first middleware without line 221: outputs/ is not cleared
UploadStartKeepsOutputs(u, S) ==
  /\ up[u].pc = "new"
  /\ \A v \in UploadIds : v < u => up[v].pc # "new"
  /\ inputs' = emptyDirectory(inputs)
  /\ job' = job + 1
  /\ overlap' = ActiveWriter
  /\ up' = [Disturbed(u) EXCEPT ![u] =
              [pc |-> "storing", files |-> S, pending |-> S, job |-> job + 1, clean |-> TRUE]]
  /\ UNCHANGED <<inputsExists, outputs, run, responded, child, res, readyState,
                 histPending, history, dl, reqVars>>

\* lines 217-223: the first middleware clears both directories, then multer takes over
UploadStart(u, S) ==
  /\ up[u].pc = "new"
  /\ \A v \in UploadIds : v < u => up[v].pc # "new"
  /\ inputs' = emptyDirectory(inputs)
  /\ outputs' = emptyDirectory(outputs)
  /\ job' = job + 1
  /\ overlap' = ActiveWriter
  /\ up' = [Disturbed(u) EXCEPT ![u] =
              [pc |-> "storing", files |-> S, pending |-> S, job |-> job + 1, clean |-> TRUE]]
  /\ UNCHANGED <<inputsExists, run, responded, child, res, readyState, histPending, history, dl, reqVars>>

\* lines 203-212: multer stores one file under its original name, creating the directory
UploadStore(u, f) ==
  /\ up[u].pc = "storing"
  /\ f \in up[u].pending
  /\ inputsExists' = TRUE
  /\ inputs' = [inputs EXCEPT ![f] = up[u].job]
  /\ up' = [Disturbed(u) EXCEPT ![u].pending = up[u].pending \ {f}]
  /\ UNCHANGED <<outputs, job, overlap, run, responded, child, res, readyState, histPending,
                 history, dl, reqVars>>

\* lines 224-226: the last handler answers with the stored files
UploadFinish(u) ==
  /\ up[u].pc = "storing"
  /\ up[u].pending = {}
  /\ up' = [up EXCEPT ![u] = [NoUpload EXCEPT !.pc = "done"]]
  /\ UNCHANGED <<inputsExists, inputs, outputs, job, overlap, run, responded, child, res,
                 readyState, histPending, history, dl, reqVars>>

\* ------------------------------------------------------------- /api/reset
\* lines 481-485
Reset ==
  /\ Present(inputs) # {} \/ Present(outputs) # {}
  /\ inputs' = emptyDirectory(inputs)
  /\ outputs' = emptyDirectory(outputs)
  /\ up' = Disturbed(0)
  /\ UNCHANGED <<inputsExists, job, overlap, run, responded, child, res, readyState,
                 histPending, history, dl, reqVars>>

\* the inputs directory is removed from outside the server (line 233 tests for it)
RemoveInputsDir ==
  /\ inputsExists
  /\ Present(inputs) = {}
  /\ inputsExists' = FALSE
  /\ UNCHANGED <<inputs, outputs, job, overlap, up, run, responded, child, res, readyState,
                 histPending, history, dl, reqVars>>

\* --------------------------------------------------------------- /api/run
\* a list that starts with the PYTHON_EXEC override
candidatesOverrideFirst ==
  (IF trimmed(env.PYTHON_EXEC) # "" THEN <<trimmed(env.PYTHON_EXEC)>> ELSE <<>>)
  \o (IF env.venvWin THEN <<venvWin>> ELSE <<>>)
  \o (IF env.venvNix THEN <<venvNix>> ELSE <<>>)
  \o (IF env.platform = "win32" THEN <<"py">> ELSE <<>>)
  \o <<"python", "python3">>

\* lines 237-246: the candidate list, built from the deployment at every request
candidates ==
  (IF env.venvWin THEN <<venvWin>> ELSE <<>>)
  \o (IF env.venvNix THEN <<venvNix>> ELSE <<>>)
  \o (IF trimmed(env.PYTHON_EXEC) # "" THEN <<trimmed(env.PYTHON_EXEC)>> ELSE <<>>)
  \o (IF env.platform = "win32" THEN <<"py">> ELSE <<>>)
  \o <<"python", "python3">>

\* the test of line 233 without its readdirSync half
NoInputsDirectory == ~inputsExists

\* line 233
NoUploadedFiles == ~inputsExists \/ Present(inputs) = {}

\* line 269: the informational line naming the candidate tried
Info(exe) == [t |-> "info", exe |-> exe]

\* lines 270-271: both streams append their chunk to the same buffer
Chunk(s, exe) == [t |-> "data", exe |-> exe]

\* line 234
BadRequest == [status |-> 400, kind |-> "error", error |-> "No uploaded files in inputs/"]
\* line 256
PythonNotFound == [status |-> 500, kind |-> "error", error |-> "Python not found"]
\* line 274
SpawnError(logs) ==
  [status |-> 500, kind |-> "error", error |-> "Python spawn error", logs |-> logs]

\* line 281: the .docx files of the output directory (every modelled artifact is one)
DocxFiles == Present(outputs)

\* a report that looks for the artifacts only after a successful exit
ReportArtifactsOnSuccess(code, logs) ==
  [status |-> 200, kind |-> "report", ok |-> (code = 0), code |-> code, logs |-> logs,
   files |-> IF code = 0 THEN DocxFiles ELSE {},
   legacy |-> [summaries |-> code = 0 /\ outputs[SUMMARIES] # Absent,
               flashcards |-> code = 0 /\ outputs[FLASHCARDS] # Absent,
               formula_sheet |-> code = 0 /\ outputs[FORMULA_SHEET] # Absent]]

\* lines 290-299: the completion report of the close handler
Report(code, logs) ==
  [status |-> 200, kind |-> "report", ok |-> (code = 0), code |-> code, logs |-> logs,
   files |-> DocxFiles,
   legacy |-> [summaries |-> outputs[SUMMARIES] # Absent,
               flashcards |-> outputs[FLASHCARDS] # Absent,
               formula_sheet |-> outputs[FORMULA_SHEET] # Absent]]

\* the flag set without a response being sent
SendSetsFlagOnly(r, response) ==
  /\ responded' = [responded EXCEPT ![r] = TRUE]
  /\ UNCHANGED res

\* lines 255-256, 274, 279-290: set the flag and send one response
Send(r, response) ==
  /\ responded' = [responded EXCEPT ![r] = TRUE]
  /\ res' = [res EXCEPT ![r] = Append(@, response)]

\* a send that does not look at the flag
SendUnguarded(r, response) == Send(r, response)

\* lines 254, 274, 277: the guard of every send of the retry chain
SendOnce(r, response) ==
  IF ~responded[r] THEN Send(r, response) ELSE UNCHANGED <<responded, res>>

\* lines 260-269: the subprocess of candidate idx (0-based), whose spawn may fail
Spawned(idx, fails) ==
  [idx |-> idx, exe |-> candidates[idx + 1],
   state |-> IF fails THEN "failing" ELSE "running",
   started |-> FALSE, errored |-> FALSE, logs |-> <<Info(candidates[idx + 1])>>,
   code |-> 0]

\* a chain that passes over the candidate it is asked to try when another follows
tryNextSkipsOne(r, idx, fails, kids) ==
  IF idx >= Len(candidates)
    THEN /\ SendOnce(r, PythonNotFound)
         /\ child' = [child EXCEPT ![r] = kids]
    ELSE /\ child' = [child EXCEPT ![r] =
                        Append(kids, Spawned(IF idx + 1 < Len(candidates) THEN idx + 1
                                             ELSE idx, fails))]
         /\ UNCHANGED <<responded, res>>

\* lines 252-269 (the handlers of lines 270-301 are the Child actions); kids are the
\* subprocesses of the request so far
tryNext(r, idx, fails, kids) ==
  IF idx >= Len(candidates)
    THEN /\ SendOnce(r, PythonNotFound)
         /\ child' = [child EXCEPT ![r] = kids]
    ELSE /\ child' = [child EXCEPT ![r] = Append(kids, Spawned(idx, fails))]
         /\ UNCHANGED <<responded, res>>

\* line 287 without the exit-code half
ShouldRecordAnyExit(ok, userId) == userId # 0

\* line 287
ShouldRecord(ok, userId) == ok /\ userId # 0

\* lines 140-145: nothing is written without a user or without a database connection
recordHistory(userId, r) ==
  IF userId = 0 \/ readyState = 0
    THEN UNCHANGED histPending
    ELSE histPending' = histPending \cup {r}

\* lines 229-251 and 303
RunRequest(r, token, fails) ==
  /\ run[r].pc = "new"
  /\ \A q \in RunIds : q < r => run[q].pc # "new"
  /\ run' = [run EXCEPT ![r] =
               [pc |-> "called", auth |-> attachAuthIfPresent(token), job |-> job]]
  /\ IF NoUploadedFiles
       THEN /\ res' = [res EXCEPT ![r] = Append(@, BadRequest)]
            /\ UNCHANGED <<responded, child>>
       ELSE tryNext(r, 0, fails, child[r])
  /\ UNCHANGED <<inputsExists, inputs, outputs, job, overlap, up, readyState,
                 histPending, history, dl, reqVars>>

\* lines 270-271: a chunk of stdout or stderr
ChildData(r, i, s) ==
  /\ i \in 1..Len(child[r])
  /\ child[r][i].state = "running"
  /\ Len(child[r][i].logs) <= MaxData
  /\ child' = [child EXCEPT ![r][i].started = TRUE,
                            ![r][i].logs = Append(@, Chunk(s, child[r][i].exe))]
  /\ UNCHANGED <<inputsExists, inputs, outputs, job, overlap, up, run, responded, res,
                 readyState, histPending, history, dl, reqVars>>

\* the external process writes one artifact into the output directory
ChildWrite(r, i, a) ==
  /\ i \in 1..Len(child[r])
  /\ child[r][i].state = "running"
  /\ outputs[a] # run[r].job
  /\ outputs' = [outputs EXCEPT ![a] = run[r].job]
  /\ up' = Disturbed(0)
  /\ UNCHANGED <<inputsExists, inputs, job, overlap, run, responded, child, res,
                 readyState, histPending, history, dl, reqVars>>

\* lines 272-275: 'error' of a candidate that could not be spawned, or of one that
\* had already produced output
ChildError(r, i, fails) ==
  /\ i \in 1..Len(child[r])
  /\ \/ child[r][i].state = "failing"
     \/ child[r][i].state = "running" /\ child[r][i].started
  /\ IF ~child[r][i].started
       THEN tryNext(r, child[r][i].idx + 1, fails,
                    [child[r] EXCEPT ![i].state = "errored", ![i].errored = TRUE])
       ELSE /\ child' = [child EXCEPT ![r][i].state = "errored", ![r][i].errored = TRUE]
            /\ SendOnce(r, SpawnError(child[r][i].logs))
  /\ UNCHANGED <<inputsExists, inputs, outputs, job, overlap, up, run, readyState,
                 histPending, history, dl, reqVars>>

\* lines 276-301: 'close' with the exit code, or with the negative errno of a failed spawn
ChildClose(r, i, code) ==
  /\ i \in 1..Len(child[r])
  /\ \/ child[r][i].state = "running" /\ code \in ExitCodes
     \/ child[r][i].state = "errored" /\ child[r][i].started /\ code \in ExitCodes
     \/ child[r][i].state = "errored" /\ ~child[r][i].started /\ code = ENOENT
  /\ child' = [child EXCEPT ![r][i].state = "closed", ![r][i].code = code]
  /\ IF ~responded[r]
       THEN /\ Send(r, Report(code, child[r][i].logs))
            /\ IF ShouldRecord(code = 0, run[r].auth)
                 THEN recordHistory(run[r].auth, r)
                 ELSE UNCHANGED histPending
       ELSE UNCHANGED <<responded, res, histPending>>
  /\ UNCHANGED <<inputsExists, inputs, outputs, job, overlap, up, run, readyState,
                 history, dl, reqVars>>

\* line 106: the default timestamp of a new entry, later than every stored one
Now(coll) ==
  1 + (IF coll = <<>> THEN 0
       ELSE CHOOSE t \in {coll[k].timestamp : k \in 1..Len(coll)} :
              \A k \in 1..Len(coll) : coll[k].timestamp <= t)

\* line 143: History.create resolves once the connection is up
HistoryCreate(r) ==
  /\ r \in histPending
  /\ readyState = 1
  /\ history' = Append(history, [userId |-> run[r].auth, run |-> r,
                                  timestamp |-> Now(history)])
  /\ histPending' = histPending \ {r}
  /\ UNCHANGED <<inputsExists, inputs, outputs, job, overlap, up, run, responded, child,
                 res, readyState, dl, reqVars>>

\* line 144: a failed write is swallowed
HistoryCreateFails(r) ==
  /\ r \in histPending
  /\ histPending' = histPending \ {r}
  /\ UNCHANGED <<inputsExists, inputs, outputs, job, overlap, up, run, responded, child,
                 res, readyState, history, dl, reqVars>>

\* lines 80-87: mongoose.connect settles
MongoConnected ==
  /\ readyState = 2
  /\ readyState' = 1
  /\ UNCHANGED <<inputsExists, inputs, outputs, job, overlap, up, run, responded, child,
                 res, histPending, history, dl, reqVars>>

MongoConnectionError ==
  /\ readyState = 2
  /\ readyState' = 0
  /\ UNCHANGED <<inputsExists, inputs, outputs, job, overlap, up, run, responded, child,
                 res, histPending, history, dl, reqVars>>

\* ------------------------------------------------------ /api/download/:name
\* file names as the characters the route parameter carries
Chars(n) ==
  CASE n = SUMMARIES -> <<"s","u","m","m","a","r","i","e","s",".","d","o","c","x">>
    [] n = FLASHCARDS -> <<"f","l","a","s","h","c","a","r","d","s",".","d","o","c","x">>
    [] n = FORMULA_SHEET ->
         <<"f","o","r","m","u","l","a","_","s","h","e","e","t",".","d","o","c","x">>
    [] n = "a.pdf" -> <<"a",".","p","d","f">>
    [] n = "n.docx" -> <<"n",".","d","o","c","x">>
    [] n = "inputs" -> <<"i","n","p","u","t","s">>
    [] n = "outputs" -> <<"o","u","t","p","u","t","s">>

\* line 21, line 22: the two directories under PROJECT_ROOT
INPUTS_DIR == <<Chars("inputs")>>
OUTPUTS_DIR == <<Chars("outputs")>>

\* the names requested: the three artifacts, a well-formed name of no file, names with
\* separators that lead out of outputs/, and names the pattern must refuse
DownloadNames ==
  { Chars(SUMMARIES), Chars(FLASHCARDS), Chars(FORMULA_SHEET),
    <<"x",".","d","o","c","x">>,
    <<".",".","d","o","c","x">>,
    <<".","d","o","c","x">>,
    <<"x",".","d","o","c">>,
    <<"a"," ","b",".","d","o","c","x">>,
    <<"S","2",".","D","O","C","X">>,
    <<".",".","/","i","n","p","u","t","s","/","n",".","d","o","c","x">>,
    <<".",".","/",".",".","/","e","t","c","/","p","a","s","s","w","d",".","d","o","c","x">>,
    <<".","/","s","u","m","m","a","r","i","e","s",".","d","o","c","x">> }

Letters ==
  {"a","b","c","d","e","f","g","h","i","j","k","l","m","n","o","p","q","r","s","t","u",
   "v","w","x","y","z"}

Capitals ==
  {"A","B","C","D","E","F","G","H","I","J","K","L","M","N","O","P","Q","R","S","T","U",
   "V","W","X","Y","Z"}

Digits == {"0","1","2","3","4","5","6","7","8","9"}

\* line 309: the character class [A-Za-z0-9_.-]
SafeChar(c) == c \in Letters \cup Capitals \cup Digits \cup {"_", ".", "-"}

\* the pattern without its anchor and character class: /\.docx$/
safeSuffixOnly(name) ==
  /\ Len(name) >= 5
  /\ SubSeq(name, Len(name) - 4, Len(name)) = <<".","d","o","c","x">>

\* line 309-310: safe.test(name) for /^[A-Za-z0-9_.-]+\.docx$/
safe(name) ==
  /\ Len(name) >= 6
  /\ SubSeq(name, Len(name) - 4, Len(name)) = <<".","d","o","c","x">>
  /\ \A k \in 1..(Len(name) - 5) : SafeChar(name[k])

\* path.join: the segments of a path, split at "/"
RECURSIVE Segments(_)
Segments(p) ==
  IF \A k \in 1..Len(p) : p[k] # "/"
    THEN <<p>>
    ELSE LET k == CHOOSE j \in 1..Len(p) :
                    p[j] = "/" /\ \A m \in 1..(j - 1) : p[m] # "/"
         IN <<SubSeq(p, 1, k - 1)>> \o Segments(SubSeq(p, k + 1, Len(p)))

\* path.join: "." and empty segments dropped, ".." removes the segment before it
RECURSIVE Normalize(_, _)
Normalize(base, segs) ==
  IF segs = <<>> THEN base
  ELSE LET h == Head(segs) IN
       IF h = <<>> \/ h = <<".">> THEN Normalize(base, Tail(segs))
       ELSE IF h = <<".", ".">>
         THEN Normalize(IF base = <<>> THEN <<>> ELSE SubSeq(base, 1, Len(base) - 1),
                        Tail(segs))
         ELSE Normalize(Append(base, h), Tail(segs))

\* line 311: path.join(OUTPUTS_DIR, name), relative to PROJECT_ROOT
filePath(name) == Normalize(OUTPUTS_DIR, Segments(name))

\* line 312: fs.existsSync on the modelled tree (the two directories and their files)
existsSync(path) ==
  \/ path = <<>>
  \/ path = OUTPUTS_DIR
  \/ path = INPUTS_DIR /\ inputsExists
  \/ \E a \in Artifacts : outputs[a] # Absent /\ path = Append(OUTPUTS_DIR, Chars(a))
  \/ \E n \in InNames : inputs[n] # Absent /\ path = Append(INPUTS_DIR, Chars(n))

\* lines 307-314
Download(name) ==
  /\ dl' = IF ~safe(name) THEN [name |-> name, status |-> 400, file |-> <<>>]
           ELSE IF ~existsSync(filePath(name))
             THEN [name |-> name, status |-> 404, file |-> <<>>]
             ELSE [name |-> name, status |-> 200, file |-> filePath(name)]
  /\ UNCHANGED <<inputsExists, inputs, outputs, job, overlap, up, run, responded, child,
                 res, readyState, histPending, history, reqVars>>

\* ------------------------------------------------------------ text of a run
\* strings are sequences of characters; null is the empty option, <<s>> the string s
null == <<>>

\* the characters \s matches in the runs considered
Whitespace == {" ", "\t"}

\* the lower-case form of a character, as the i flag of a pattern compares letters
toLowerCase(c) ==
  CASE c = "A" -> "a" [] c = "B" -> "b" [] c = "C" -> "c" [] c = "D" -> "d"
    [] c = "E" -> "e" [] c = "F" -> "f" [] c = "G" -> "g" [] c = "H" -> "h"
    [] c = "I" -> "i" [] c = "J" -> "j" [] c = "K" -> "k" [] c = "L" -> "l"
    [] c = "M" -> "m" [] c = "N" -> "n" [] c = "O" -> "o" [] c = "P" -> "p"
    [] c = "Q" -> "q" [] c = "R" -> "r" [] c = "S" -> "s" [] c = "T" -> "t"
    [] c = "U" -> "u" [] c = "V" -> "v" [] c = "W" -> "w" [] c = "X" -> "x"
    [] c = "Y" -> "y" [] c = "Z" -> "z" [] OTHER -> c

\* the first position from k on that holds no whitespace (Len(s) + 1 when there is none)
RECURSIVE SkipSpace(_, _)
SkipSpace(s, k) ==
  IF k > Len(s) \/ s[k] \notin Whitespace THEN k ELSE SkipSpace(s, k + 1)

\* the last position up to k that holds no whitespace (0 when there is none)
RECURSIVE SkipSpaceBack(_, _)
SkipSpaceBack(s, k) ==
  IF k < 1 \/ s[k] \notin Whitespace THEN k ELSE SkipSpaceBack(s, k - 1)

\* String.prototype.trim
trim(s) == SubSeq(s, SkipSpace(s, 1), SkipSpaceBack(s, Len(s)))

\* the lower-case word w stands in s at position k, letters compared without case
WordAt(s, k, w) ==
  /\ k + Len(w) - 1 <= Len(s)
  /\ \A m \in 1..Len(w) : toLowerCase(s[k + m - 1]) = w[m]

\* /^\s*(?:L\s*[:\-]\s*)(.+)$/i for one label L: the captured group, or null.
\* The group needs one character, so a label followed by whitespace only gives that
\* whitespace back, and a label followed by nothing does not match.
labelMatch(line, label) ==
  LET i == SkipSpace(line, 1)
      j == SkipSpace(line, i + Len(label))
      k == SkipSpace(line, j + 1)
  IN IF ~WordAt(line, i, label) THEN null
     ELSE IF j > Len(line) \/ line[j] \notin {":", "-"} THEN null
     ELSE IF k <= Len(line) THEN <<SubSeq(line, k, Len(line))>>
     ELSE IF j < Len(line) THEN <<SubSeq(line, Len(line), Len(line))>>
     ELSE null

\* line 374: line.match(/^\s*(?:Q\s*[:\-]\s*|Question\s*[:\-]\s*)(.+)$/i)
qMatch(line) ==
  LET short == labelMatch(line, <<"q">>)
  IN IF short # null THEN short
     ELSE labelMatch(line, <<"q","u","e","s","t","i","o","n">>)

\* line 375: line.match(/^\s*(?:A\s*[:\-]\s*|Answer\s*[:\-]\s*)(.+)$/i)
aMatch(line) ==
  LET short == labelMatch(line, <<"a">>)
  IN IF short # null THEN short
     ELSE labelMatch(line, <<"a","n","s","w","e","r">>)

\* ------------------------------------------------------------- the previews
\* lines 331, 351, 371, 436: pathLike.test(t) for
\* /(?:[A-Za-z]:\\|\\\\|\/)\S+\.(?:pdf|txt|docx)$/i, which is searched for anywhere in t:
\* a drive, UNC or slash marker, then characters without whitespace up to the last dot,
\* then one of the three extensions at the end
pathLike(t) ==
  \E d \in 1..Len(t) :
    /\ t[d] = "."
    /\ \E ext \in { <<"p","d","f">>, <<"t","x","t">>, <<"d","o","c","x">> } :
         d + Len(ext) = Len(t) /\ WordAt(t, d + 1, ext)
    /\ \E e \in 1..(d - 2) :
         /\ \/ t[e] = "/"
            \/ e >= 2 /\ t[e] = "\\" /\ t[e - 1] = "\\"
            \/ e >= 3 /\ t[e] = "\\" /\ t[e - 1] = ":"
                 /\ toLowerCase(t[e - 2]) \in Letters
         /\ \A m \in (e + 1)..(d - 1) : t[m] \notin Whitespace

\* Array.prototype.filter with the test of lines 332, 352, 437
RECURSIVE filterRuns(_)
filterRuns(texts) ==
  IF texts = <<>> THEN <<>>
  ELSE IF pathLike(Head(texts)) THEN filterRuns(Tail(texts))
  ELSE <<Head(texts)>> \o filterRuns(Tail(texts))

\* line 372: texts.map(t => t.trim()).filter(t => t && !pathLike.test(t))
RECURSIVE filterLines(_)
filterLines(texts) ==
  IF texts = <<>> THEN <<>>
  ELSE LET t == trim(Head(texts)) IN
       IF t = <<>> \/ pathLike(t) THEN filterLines(Tail(texts))
       ELSE <<t>> \o filterLines(Tail(texts))

\* the truth value JavaScript gives an optional string: null and "" are false
Truthy(o) == o # null /\ o[1] # <<>>

\* an answer run without a pending question starts a question, as a plain line does
RECURSIVE pairLinesAnswerStarts(_, _, _)
pairLinesAnswerStarts(texts, cards, currentQ) ==
  IF texts = <<>>
    THEN IF Truthy(currentQ) THEN Append(cards, [q |-> currentQ[1], a |-> <<>>]) ELSE cards
  ELSE LET line == Head(texts)
           qMatched == qMatch(line)
           aMatched == aMatch(line)
       IN
    IF qMatched # null
      THEN pairLinesAnswerStarts(Tail(texts),
             IF Truthy(currentQ) THEN Append(cards, [q |-> currentQ[1], a |-> <<>>])
             ELSE cards,
             <<trim(qMatched[1])>>)
    ELSE IF aMatched # null /\ Truthy(currentQ)
      THEN pairLinesAnswerStarts(Tail(texts),
             Append(cards, [q |-> currentQ[1], a |-> trim(aMatched[1])]), null)
    ELSE IF currentQ = null
      THEN pairLinesAnswerStarts(Tail(texts), cards, <<line>>)
      ELSE pairLinesAnswerStarts(Tail(texts),
             Append(cards, [q |-> currentQ[1], a |-> line]), null)

\* lines 373-397: the loop over the filtered lines with its variables cards and
\* currentQ, and the pending question pushed after the loop
RECURSIVE pairLines(_, _, _)
pairLines(texts, cards, currentQ) ==
  IF texts = <<>>
    THEN IF Truthy(currentQ) THEN Append(cards, [q |-> currentQ[1], a |-> <<>>]) ELSE cards
  ELSE LET line == Head(texts)
           qMatched == qMatch(line)
           aMatched == aMatch(line)
       IN
    IF qMatched # null
      THEN pairLines(Tail(texts),
             IF Truthy(currentQ) THEN Append(cards, [q |-> currentQ[1], a |-> <<>>])
             ELSE cards,
             <<trim(qMatched[1])>>)
    ELSE IF aMatched # null
      THEN IF Truthy(currentQ)
             THEN pairLines(Tail(texts),
                    Append(cards, [q |-> currentQ[1], a |-> trim(aMatched[1])]), null)
             ELSE pairLines(Tail(texts), cards, currentQ)
    ELSE IF currentQ = null
      THEN pairLines(Tail(texts), cards, <<line>>)
      ELSE pairLines(Tail(texts), Append(cards, [q |-> currentQ[1], a |-> line]), null)

\* String.prototype.split(/\s+/).length: one piece more than there are runs of whitespace
splitLength(s) ==
  1 + Cardinality({k \in 1..Len(s) :
                     s[k] \in Whitespace /\ (k = 1 \/ s[k - 1] \notin Whitespace)})

\* a header test that looks at the question only
looksHeaderByQuestion(first) ==
  \/ first.q # <<>> /\ splitLength(first.q) < 3
  \/ \E w \in { <<"f","l","a","s","h","c","a","r","d">>, <<"s","u","m","m","a","r","y">>, <<"c","o","n","t","e","n","t">>, <<"s","t","u","d","y">> } :
       WordAt(first.q, 1, w)

\* lines 400-403: looksHeader of the first card
looksHeader(first) ==
  \/ first.a = <<>> \/ Len(trim(first.a)) = 0
  \/ first.q # <<>> /\ splitLength(first.q) < 3
  \/ \E w \in { <<"f","l","a","s","h","c","a","r","d">>, <<"s","u","m","m","a","r","y">>, <<"c","o","n","t","e","n","t">>, <<"s","t","u","d","y">> } :
       WordAt(first.q, 1, w)

\* lines 398-405: cards.shift() when the first card looks like a header
dropHeader(cards) ==
  IF cards # <<>> /\ looksHeader(cards[1]) THEN Tail(cards) ELSE cards

\* the first position from k on that holds no digit
RECURSIVE SkipDigits(_, _)
SkipDigits(s, k) ==
  IF k > Len(s) \/ s[k] \notin Digits THEN k ELSE SkipDigits(s, k + 1)

\* s.replace(/^\s*(?:L|Label)\s*\d*\s*[:.)-]?\s*/i, "") for the letter L: the
\* one-letter alternative always matches first and everything after it is optional
replaceLabel(s, letter) ==
  LET i == SkipSpace(s, 1)
      j == SkipSpace(s, SkipDigits(s, SkipSpace(s, i + 1)))
      k == IF j <= Len(s) /\ s[j] \in {":", ".", ")", "-"} THEN j + 1 ELSE j
  IN IF i <= Len(s) /\ toLowerCase(s[i]) = letter
       THEN SubSeq(s, SkipSpace(s, k), Len(s))
       ELSE s

\* the bullet character U+2022, one element of a string
Bullet == "u2022"

\* s.replace(/^\s*[\u2022\-]\s*/, "")
replaceBullet(s) ==
  LET i == SkipSpace(s, 1)
  IN IF i <= Len(s) /\ s[i] \in {Bullet, "-"}
       THEN SubSeq(s, SkipSpace(s, i + 1), Len(s))
       ELSE s

\* lines 407-414
stripLabel(s) ==
  IF s = <<>> THEN s ELSE trim(replaceBullet(replaceLabel(replaceLabel(s, "q"), "a")))

\* lines 415-418
stripLabels(cards) ==
  [k \in 1..Len(cards) |-> [q |-> stripLabel(cards[k].q), a |-> stripLabel(cards[k].a)]]

\* the four preview endpoints and the artifact each one shows by default
PreviewEndpoints ==
  {"summary-preview", "flashcards-preview", "flashcards-json", "formulas-preview"}

\* lines 320, 342, 362, 427: the default file name of an endpoint
defaultFile(endpoint) ==
  CASE endpoint = "summary-preview" -> Chars(SUMMARIES)
    [] endpoint = "formulas-preview" -> Chars(FORMULA_SHEET)
    [] OTHER -> Chars(FLASHCARDS)

\* the values of the file query parameter: none, a name of no file, and a name
\* that leads into inputs/
PreviewFiles ==
  { <<>>,
    <<"x",".","d","o","c","x">>,
    <<".",".","/","i","n","p","u","t","s","/","n",".","d","o","c","x">> }

\* the text runs a document is made of
TextRuns ==
  { <<"Q",":"," ","W","h","a","t"," ","i","s"," ","i","n","e","r","t","i","a","?">>,
    <<"A",":"," ","R","e","s","i","s","t","a","n","c","e"," ","t","o"," ","c","h","a","n","g","e"," ","i","n"," ","m","o","t","i","o","n">>,
    <<"R","a","n","d","o","m"," ","f","a","c","t">>,
    <<"C",":","\\","n","o","t","e","s","\\","c","h","a","p","t","e","r","1",".","p","d","f">>,
    <<"N","e","w","t","o","n","'","s"," ","S","e","c","o","n","d"," ","L","a","w">>,
    <<"S","e","e"," ","/","t","m","p","/","a",".","p","d","f">>,
    <<"S","U","M","M","A","R","Y"," ","o","f"," ","t","h","e"," ","n","o","t","e","s">>,
    <<"q","u","e","s","t","i","o","n"," ","-"," ","W","h","y"," ","s","o","?">>,
    <<"A","t","o","m","s"," ","a","r","e"," ","s","m","a","l","l">>,
    <<" ">> }

\* the files a preview may find at its path: no zip archive at all, an archive
\* without word/document.xml, and documents of up to MaxTexts runs
Documents ==
  { [zip |-> FALSE, entry |-> FALSE, runs |-> <<>>],
    [zip |-> TRUE, entry |-> FALSE, runs |-> <<>>] }
  \cup { [zip |-> TRUE, entry |-> TRUE, runs |-> t] :
           t \in UNION { [1..n -> TextRuns] : n \in 0..MaxTexts } }

\* lines 319-320: the path of the document a preview opens
docxPath(endpoint, f) ==
  filePath(IF f # <<>> /\ Len(f) >= 5 /\ SubSeq(f, Len(f) - 4, Len(f)) = <<".","d","o","c","x">>
             THEN f ELSE defaultFile(endpoint))

\* a preview that opens the document without looking for the file first
notFoundNever(path) == FALSE

\* lines 321, 343, 363, 428
notFound(path) == ~existsSync(path)

\* lines 326-329: the <w:t> runs of word/document.xml, none when the part is missing
documentRuns(doc) == IF doc.entry THEN doc.runs ELSE <<>>

\* a preview request arrives; the document is what the file at its path holds
PreviewRequest(endpoint, f, doc) ==
  /\ pv = NoPreview
  /\ pv' = [endpoint |-> endpoint, status |-> 0, file |-> f, doc |-> doc]
  /\ UNCHANGED <<inputsExists, inputs, outputs, job, overlap, up, run, responded, child,
                 res, readyState, histPending, history, dl, api, users, env>>

\* lines 318-338, 340-357, 360-423, 425-442: the handler, which runs to its response
\* without a pause
Preview ==
  /\ pv.endpoint # "none" /\ pv.status = 0
  /\ pv' =
       LET endpoint == pv.endpoint
           path == docxPath(endpoint, pv.file)
           texts == documentRuns(pv.doc)
           lines == filterLines(texts)
           paired == pairLines(lines, <<>>, null)
           kept == dropHeader(paired)
       IN IF notFound(path)
            THEN [endpoint |-> endpoint, path |-> path, status |-> 404]
          ELSE IF ~existsSync(path) \/ ~pv.doc.zip
            THEN [endpoint |-> endpoint, path |-> path, status |-> 500]
          ELSE IF endpoint = "flashcards-json"
            THEN [endpoint |-> endpoint, path |-> path, status |-> 200,
                  entry |-> pv.doc.entry, runs |-> texts, texts |-> lines,
                  paired |-> paired, kept |-> kept, cards |-> stripLabels(kept)]
          ELSE [endpoint |-> endpoint, path |-> path, status |-> 200,
                entry |-> pv.doc.entry, runs |-> texts, paragraphs |-> filterRuns(texts)]
  /\ UNCHANGED <<inputsExists, inputs, outputs, job, overlap, up, run, responded, child,
                 res, readyState, histPending, history, dl, api, users, env>>

\* ------------------------------------------------- auth and history routes
\* the e-mail addresses and passwords a body carries ("" when the field is missing)
Emails == {"", "u1@x"}
Passwords == {"", "pw", "other"}

\* a query parameter: <<>> when it is missing, <<n>> for the decimal string of n
Pages == {<<>>} \cup {<<n>> : n \in 0..MaxPage}
Limits == {<<>>, <<0>>, <<1>>, <<DEFAULT_LIMIT>>, <<MAX_LIMIT + 1>>}

\* the requests to the five routes
ApiRequests ==
  { [endpoint |-> e, token |-> "none", email |-> m, password |-> p,
     page |-> <<>>, limit |-> <<>>] :
      e \in {"register", "login"}, m \in Emails, p \in Passwords }
  \cup { [endpoint |-> e, token |-> t, email |-> "", password |-> "",
          page |-> <<>>, limit |-> <<>>] :
           e \in {"me", "history-clear"}, t \in Tokens }
  \cup { [endpoint |-> "history-list", token |-> t, email |-> "", password |-> "",
          page |-> pg, limit |-> l] :
           t \in Tokens, pg \in Pages, l \in Limits }

\* a request arrives while no other request to these routes is being handled
ApiRequest(req) ==
  /\ api.endpoint = "none" \/ api.status # 0
  /\ api' = [endpoint |-> req.endpoint, status |-> 0, request |-> req]
  /\ UNCHANGED <<inputsExists, inputs, outputs, job, overlap, up, run, responded, child,
                 res, readyState, histPending, history, dl, pv, users, env>>

\* the request being handled by the route
Handling(endpoint) == api.endpoint = endpoint /\ api.status = 0

\* a database operation succeeds only on an open connection; without one mongoose
\* buffers it and rejects it when the buffer timeout expires
Settles(dbOk) == dbOk => readyState = 1

Answer(status) == [endpoint |-> api.endpoint, status |-> status, request |-> api.request]

\* lines 117-127: 401 without a token that verifies
authRequired(token) == attachAuthIfPresent(token) # 0

\* lines 150-167
Register(dbOk) ==
  LET req == api.request
      registered == \E u \in users : u.email = req.email
  IN /\ Handling("register")
     /\ Settles(dbOk)
     /\ api' = IF req.email = "" \/ req.password = "" THEN Answer(400)
               ELSE IF readyState = 0 THEN Answer(503)
               ELSE IF ~dbOk THEN Answer(500)
               ELSE IF registered THEN Answer(409)
               ELSE Answer(200)
     /\ users' = IF req.email # "" /\ req.password # "" /\ readyState # 0 /\ dbOk
                    /\ ~registered
                   THEN users \cup {[email |-> req.email, password |-> req.password]}
                   ELSE users
     /\ UNCHANGED <<inputsExists, inputs, outputs, job, overlap, up, run, responded,
                    child, res, readyState, histPending, history, dl, pv, env>>

\* lines 171-187
Login(dbOk) ==
  LET req == api.request
  IN /\ Handling("login")
     /\ Settles(dbOk)
     /\ api' = IF req.email = "" \/ req.password = "" THEN Answer(400)
               ELSE IF readyState = 0 THEN Answer(503)
               ELSE IF ~dbOk THEN Answer(500)
               ELSE IF [email |-> req.email, password |-> req.password] \notin users
                 THEN Answer(401)
               ELSE Answer(200)
     /\ UNCHANGED <<inputsExists, inputs, outputs, job, overlap, up, run, responded,
                    child, res, readyState, histPending, history, dl, pv, users, env>>

\* lines 194-201
Me(dbOk) ==
  /\ Handling("me")
  /\ Settles(dbOk)
  /\ api' = IF ~authRequired(api.request.token) THEN Answer(401)
            ELSE IF ~dbOk THEN Answer(500)
            ELSE Answer(200)
  /\ UNCHANGED <<inputsExists, inputs, outputs, job, overlap, up, run, responded, child,
                 res, readyState, histPending, history, dl, pv, users, env>>

\* parseInt(req.query.x || "d", 10) for a missing or decimal parameter
parseQuery(raw, default) == IF raw = <<>> THEN default ELSE raw[1]

\* Math.max and Math.min of two numbers
Max(a, b) == IF a >= b THEN a ELSE b
Min(a, b) == IF a <= b THEN a ELSE b

\* line 457
pageOf(raw) == Max(1, parseQuery(raw, 1))

\* line 458
limitOf(raw) == Min(MAX_LIMIT, Max(1, parseQuery(raw, DEFAULT_LIMIT)))

\* a skip that leaves out the page asked for as well
skipOfNextPage(page, limit) == page * limit

\* line 459
skipOf(page, limit) == (page - 1) * limit

\* line 461: History.find({ userId })
find(userId) == SelectSeq(history, LAMBDA e : e.userId = userId)

\* line 461: sort({ timestamp: -1 })
RECURSIVE sortDescending(_)
sortDescending(entries) ==
  IF entries = <<>> THEN <<>>
  ELSE LET k == CHOOSE i \in 1..Len(entries) :
                  \A j \in 1..Len(entries) : entries[j].timestamp <= entries[i].timestamp
       IN <<entries[k]>>
          \o sortDescending(SubSeq(entries, 1, k - 1) \o SubSeq(entries, k + 1, Len(entries)))

\* line 461: skip(skip).limit(limit)
skipLimit(entries, skip, limit) == SubSeq(entries, skip + 1, Min(skip + limit, Len(entries)))

\* lines 455-468
HistoryList(dbOk) ==
  LET userId == attachAuthIfPresent(api.request.token)
      page == pageOf(api.request.page)
      limit == limitOf(api.request.limit)
  IN /\ Handling("history-list")
     /\ Settles(dbOk)
     /\ api' = IF ~authRequired(api.request.token) THEN Answer(401)
               ELSE IF ~dbOk THEN Answer(500)
               ELSE [endpoint |-> api.endpoint, status |-> 200, request |-> api.request,
                     userId |-> userId,
                     items |-> skipLimit(sortDescending(find(userId)),
                                         skipOf(page, limit), limit),
                     page |-> page, limit |-> limit, total |-> Len(find(userId))]
     /\ UNCHANGED <<inputsExists, inputs, outputs, job, overlap, up, run, responded,
                    child, res, readyState, histPending, history, dl, pv, users, env>>

\* lines 471-478
HistoryClear(dbOk) ==
  LET userId == attachAuthIfPresent(api.request.token)
  IN /\ Handling("history-clear")
     /\ Settles(dbOk)
     /\ api' = IF ~authRequired(api.request.token) THEN Answer(401)
               ELSE IF ~dbOk THEN Answer(500)
               ELSE Answer(200)
     /\ history' = IF authRequired(api.request.token) /\ dbOk
                     THEN SelectSeq(history, LAMBDA e : e.userId # userId)
                     ELSE history
     /\ UNCHANGED <<inputsExists, inputs, outputs, job, overlap, up, run, responded,
                    child, res, readyState, histPending, dl, pv, users, env>>

\* ---------------------------------------------------------- specifications
\* The retry chain of /api/run with its history writes, on a workspace that is reset
\* and removed underneath it.
Next ==
  \/ \E r \in RunIds, token \in Tokens, fails \in BOOLEAN : RunRequest(r, token, fails)
  \/ \E r \in RunIds, i \in 1..Len(candidates), s \in Streams : ChildData(r, i, s)
  \/ \E r \in RunIds, i \in 1..Len(candidates), fails \in BOOLEAN : ChildError(r, i, fails)
  \/ \E r \in RunIds, i \in 1..Len(candidates), code \in ExitCodes \cup {ENOENT} :
        ChildClose(r, i, code)
  \/ \E r \in RunIds : HistoryCreate(r)
  \/ \E r \in RunIds : HistoryCreateFails(r)
  \/ MongoConnected
  \/ MongoConnectionError
  \/ Reset
  \/ RemoveInputsDir

Spec == Init /\ [][Next]_vars

\* The completion report: subprocesses that write artifacts while the workspace is reset.
NextReport ==
  \/ \E r \in RunIds, fails \in BOOLEAN : RunRequest(r, "none", fails)
  \/ \E r \in RunIds, i \in 1..Len(candidates), a \in Artifacts : ChildWrite(r, i, a)
  \/ \E r \in RunIds, i \in 1..Len(candidates), fails \in BOOLEAN : ChildError(r, i, fails)
  \/ \E r \in RunIds, i \in 1..Len(candidates), code \in ExitCodes \cup {ENOENT} :
        ChildClose(r, i, code)
  \/ Reset

SpecReport == InitNoDb /\ [][NextReport]_vars

\* The shared workspace: uploads, resets and running jobs interleaved.
NextWorkspace ==
  \/ \E u \in UploadIds, S \in SUBSET InNames : UploadStart(u, S)
  \/ \E u \in UploadIds, f \in InNames : UploadStore(u, f)
  \/ \E u \in UploadIds : UploadFinish(u)
  \/ Reset
  \/ \E r \in RunIds : RunRequest(r, "none", FALSE)
  \/ \E r \in RunIds, i \in 1..Len(candidates) : ChildWrite(r, i, SUMMARIES)
  \/ \E r \in RunIds, i \in 1..Len(candidates) : ChildClose(r, i, 0)

SpecWorkspace == InitNoDb /\ [][NextWorkspace]_vars

\* Downloads against an output directory that jobs fill and resets empty.
NextDownload ==
  \/ \E name \in DownloadNames : Download(name)
  \/ \E r \in RunIds : RunRequest(r, "none", FALSE)
  \/ \E r \in RunIds, i \in 1..Len(candidates), a \in Artifacts : ChildWrite(r, i, a)
  \/ \E r \in RunIds, i \in 1..Len(candidates) : ChildClose(r, i, 0)
  \/ Reset

SpecDownload == InitNoDb /\ [][NextDownload]_vars

\* The previews of the artifacts: every document under its default name, and every
\* value of the file parameter with a document of one run.
NextPreview ==
  \/ \E endpoint \in PreviewEndpoints, doc \in Documents :
        PreviewRequest(endpoint, <<>>, doc)
  \/ \E endpoint \in PreviewEndpoints, f \in PreviewFiles, t \in TextRuns :
        PreviewRequest(endpoint, f, [zip |-> TRUE, entry |-> TRUE, runs |-> <<t>>])
  \/ Preview

SpecPreview == InitNoDb /\ [][NextPreview]_vars

\* The retry chain alone, with every spawned subprocess emitting its events: the
\* event loop delivers an 'error' or 'close' that a subprocess emits, so the handlers
\* of a request cannot stay enabled forever without one of them running.
ChildEvents(r) ==
  \/ \E i \in 1..Len(candidates), fails \in BOOLEAN : ChildError(r, i, fails)
  \/ \E i \in 1..Len(candidates), code \in ExitCodes \cup {ENOENT} : ChildClose(r, i, code)

NextChain ==
  \/ \E r \in RunIds, fails \in BOOLEAN : RunRequest(r, "none", fails)
  \/ \E r \in RunIds, i \in 1..Len(candidates), s \in Streams : ChildData(r, i, s)
  \/ \E r \in RunIds : ChildEvents(r)

SpecChain ==
  /\ Init
  /\ [][NextChain]_vars
  /\ \A r \in RunIds : WF_vars(ChildEvents(r))

\* The retry chain over the candidate list of every deployment.
NextCandidates ==
  \/ \E r \in RunIds, fails \in BOOLEAN : RunRequest(r, "none", fails)
  \/ \E r \in RunIds, i \in 1..Len(candidates), fails \in BOOLEAN : ChildError(r, i, fails)
  \/ \E r \in RunIds, i \in 1..Len(candidates), code \in ExitCodes : ChildClose(r, i, code)

SpecCandidates == InitCandidates /\ [][NextCandidates]_vars

\* The auth and history routes next to a run request, while the database connection
\* is missing, being opened, or open.
NextAccounts ==
  \/ \E req \in ApiRequests : req.page = <<>> /\ req.limit = <<>> /\ ApiRequest(req)
  \/ \E dbOk \in BOOLEAN : Register(dbOk)
  \/ \E dbOk \in BOOLEAN : Login(dbOk)
  \/ \E dbOk \in BOOLEAN : Me(dbOk)
  \/ \E dbOk \in BOOLEAN : HistoryList(dbOk)
  \/ \E dbOk \in BOOLEAN : HistoryClear(dbOk)
  \/ MongoConnected
  \/ MongoConnectionError
  \/ \E r \in RunIds : RunRequest(r, "u1", FALSE)
  \/ \E r \in RunIds, i \in 1..Len(candidates), code \in ExitCodes : ChildClose(r, i, code)
  \/ \E r \in RunIds : HistoryCreate(r)
  \/ \E r \in RunIds : HistoryCreateFails(r)

SpecAccounts == InitAccounts /\ [][NextAccounts]_vars

\* The pages of a stored history.
NextHistory ==
  \/ \E req \in ApiRequests :
        req.endpoint \in {"history-list", "history-clear"} /\ ApiRequest(req)
  \/ \E dbOk \in BOOLEAN : HistoryList(dbOk)
  \/ \E dbOk \in BOOLEAN : HistoryClear(dbOk)
  \/ MongoConnected

SpecHistory == InitHistory /\ [][NextHistory]_vars

\* ------------------------------------------------------------------ claims
SpawnFailed(c) == c.errored /\ ~c.started
Exited(c) == c.state = "closed" /\ ~c.errored
IsReport(x) == x.kind = "report"
Entries(r) == {k \in 1..Len(history) : history[k].run = r}

\* C1: a run request is answered at most once, whatever subprocess events arrive and in
\* whatever order; an event after the response adds no second response.
C1_AtMostOneResponse == \A r \in RunIds : Len(res[r]) <= 1

\* C1 witness: both candidates of a request were spawned and have closed, so at least one
\* close arrived after the single response.
C1_Witness ==
  \E r \in RunIds :
    /\ Len(res[r]) = 1
    /\ Len(child[r]) = 2
    /\ \A i \in 1..2 : child[r][i].state = "closed"

\* C2: a run request made while inputs/ is missing or empty is answered 400 and never
\* has a subprocess.
C2_EmptyInputsRejected ==
  /\ [][\A r \in RunIds :
          (run[r].pc = "new" /\ run'[r].pc = "called" /\ (~inputsExists \/ Present(inputs) = {}))
            => (res'[r] = <<BadRequest>> /\ child'[r] = <<>>)]_vars
  /\ [](\A r \in RunIds :
          (res[r] # <<>> /\ res[r][1].status = 400) => (res[r] = <<BadRequest>> /\ child[r] = <<>>))

\* C2 witness: a request was rejected while the directory itself was missing.
C2_Witness ==
  \E r \in RunIds : res[r] = <<BadRequest>> /\ ~inputsExists /\ child[r] = <<>>

\* C5: when candidate 1 fails to spawn and candidate 2 starts and exits, the response is
\* the report of candidate 2's exit code.
C5_ResultOfSecondCandidate ==
  \A r \in RunIds :
    (Len(child[r]) = 2 /\ SpawnFailed(child[r][1]) /\ Exited(child[r][2]))
      => /\ Len(res[r]) = 1
         /\ IsReport(res[r][1])
         /\ res[r][1].code = child[r][2].code
         /\ res[r][1].ok = (child[r][2].code = 0)

\* C6: when candidate 1 fails to spawn and candidate 2 starts and exits, the returned log
\* holds the informational entry of candidate 1 as well as candidate 2's entry and output.
C6_LogNamesEveryCandidate ==
  \A r \in RunIds :
    (Len(child[r]) = 2 /\ SpawnFailed(child[r][1]) /\ Exited(child[r][2]))
      => /\ Len(res[r]) = 1
         /\ IsReport(res[r][1])
         /\ \E k \in 1..Len(res[r][1].logs) : res[r][1].logs[k] = Info(candidates[1])
         /\ \A k \in 1..Len(child[r][2].logs) :
              \E m \in 1..Len(res[r][1].logs) : res[r][1].logs[m] = child[r][2].logs[k]

\* C7: when no candidate could be spawned, the only response is the 500 "Python not
\* found" error; no exit-code report is sent.
C7_NoInterpreterIsOneError ==
  \A r \in RunIds :
    (Len(child[r]) = Len(candidates) /\ \A i \in 1..Len(child[r]) : SpawnFailed(child[r][i]))
      => res[r] = <<PythonNotFound>>

C3_UploadLeavesExactlyItsFiles ==
  [][\A u \in UploadIds :
       (up[u].pc = "storing" /\ up'[u].pc = "done")
         => (Present(inputs') = up[u].files /\ Present(outputs') = {})]_vars

\* C3 as amended: the same, for an upload during which no other upload or reset request
\* touched the workspace and no subprocess wrote an artifact.
C3_UndisturbedUploadLeavesExactlyItsFiles ==
  [][\A u \in UploadIds :
       (up[u].pc = "storing" /\ up'[u].pc = "done" /\ up[u].clean)
         => (Present(inputs') = up[u].files /\ Present(outputs') = {})]_vars

\* C3 witness: the second upload, of a.pdf alone, is about to be answered undisturbed.
C3_Witness ==
  \E u \in UploadIds :
    /\ up[u].pc = "storing" /\ up[u].pending = {} /\ up[u].clean
    /\ up[u].job = 3 /\ up[u].files = {"a.pdf"}
    /\ Present(inputs) = {"a.pdf"} /\ Present(outputs) = {}

\* C8 as claimed: in every reachable state each directory holds only files of the most
\* recent job.
C8_OnlyMostRecentJob ==
  /\ \A n \in InNames : inputs[n] \in {Absent, job}
  /\ \A a \in Artifacts : outputs[a] \in {Absent, job}

\* C8 as amended: that holds whenever the most recent upload began while no earlier
\* upload was still storing files and no subprocess of an earlier run request was open.
C8_OnlyMostRecentJobWithoutOverlap ==
  ~overlap =>
    /\ \A n \in InNames : inputs[n] \in {Absent, job}
    /\ \A a \in Artifacts : outputs[a] \in {Absent, job}

\* C8 witness: after two uploads without overlap both directories hold files of job 3.
C8_Witness ==
  job = 3 /\ ~overlap /\ inputs["a.pdf"] = 3 /\ outputs[SUMMARIES] = 3

DirectlyInOutputs(n) == \E a \in Artifacts : Chars(a) = n /\ outputs[a] # Absent

\* ^[A-Za-z0-9_.-]+\.docx$ as the claim words it: one or more characters of the class,
\* then ".docx", and nothing else
MatchesPattern(n) ==
  \E k \in 1..Len(n) :
    /\ \A j \in 1..k : n[j] \in Letters \cup Capitals \cup Digits \cup {"_", ".", "-"}
    /\ SubSeq(n, k + 1, Len(n)) = <<".","d","o","c","x">>

\* C10: a download answers 400 exactly for the names the pattern refuses, among them
\* every name with a path separator; 404 for an accepted name of no file in outputs/;
\* and streams only an accepted name that is a file directly in outputs/.
C10_DownloadGuard ==
  [][dl' # dl =>
       /\ (dl'.status = 400) = ~MatchesPattern(dl'.name)
       /\ (\E k \in 1..Len(dl'.name) : dl'.name[k] = "/") => dl'.status = 400
       /\ (dl'.status = 404) = (MatchesPattern(dl'.name) /\ ~DirectlyInOutputs(dl'.name))
       /\ (dl'.status = 200) = (MatchesPattern(dl'.name) /\ DirectlyInOutputs(dl'.name))
       /\ dl'.status = 200 => dl'.file = Append(OUTPUTS_DIR, dl'.name)]_vars

\* C10 witness: ../inputs/n.docx names a file that exists, outside outputs/, and is
\* refused with 400.
C10_Witness ==
  /\ dl.status = 400
  /\ dl.name = <<".",".","/","i","n","p","u","t","s","/","n",".","d","o","c","x">>
  /\ inputs["n.docx"] # Absent

\* ------------------------------------------------------------ C11: pairing
\* the run, after optional whitespace, holds the label (in any case), then a colon or
\* dash, then its text from position k on, with optional whitespace between the parts
Labelled(r, label, k) ==
  /\ k \in 1..Len(r) /\ r[k] \notin Whitespace
  /\ \E i \in 1..k, j \in 1..k :
       /\ i + Len(label) <= j /\ j < k
       /\ \A m \in 1..(i - 1) : r[m] \in Whitespace
       /\ WordAt(r, i, label)
       /\ \A m \in (i + Len(label))..(j - 1) : r[m] \in Whitespace
       /\ r[j] \in {":", "-"}
       /\ \A m \in (j + 1)..(k - 1) : r[m] \in Whitespace

\* the texts a run carries behind one of the labels (none, or one)
LabelledTexts(r, labels) ==
  {SubSeq(r, k, Len(r)) : k \in {n \in 1..Len(r) : \E l \in labels : Labelled(r, l, n)}}

QuestionTexts(r) == LabelledTexts(r, { <<"q">>, <<"q","u","e","s","t","i","o","n">> })
AnswerTexts(r) == LabelledTexts(r, { <<"a">>, <<"a","n","s","w","e","r">> })

\* the cards the four rules give for the runs, with at most one pending question
RECURSIVE PairingRules(_, _)
PairingRules(runs, pending) ==
  IF runs = <<>> THEN [k \in 1..Len(pending) |-> [q |-> pending[k], a |-> <<>>]]
  ELSE LET r == Head(runs) IN
    IF QuestionTexts(r) # {}
      THEN [k \in 1..Len(pending) |-> [q |-> pending[k], a |-> <<>>]]
           \o PairingRules(Tail(runs), <<CHOOSE t \in QuestionTexts(r) : TRUE>>)
    ELSE IF AnswerTexts(r) # {}
      THEN IF pending = <<>> THEN PairingRules(Tail(runs), <<>>)
           ELSE <<[q |-> pending[1], a |-> CHOOSE t \in AnswerTexts(r) : TRUE]>>
                \o PairingRules(Tail(runs), <<>>)
    ELSE IF pending = <<>> THEN PairingRules(Tail(runs), <<r>>)
    ELSE <<[q |-> pending[1], a |-> r]>> \o PairingRules(Tail(runs), <<>>)

\* the runs and the cards of the example
InertiaRuns ==
  << <<"Q",":"," ","W","h","a","t"," ","i","s"," ","i","n","e","r","t","i","a","?">>,
     <<"A",":"," ","R","e","s","i","s","t","a","n","c","e"," ","t","o"," ","c","h","a","n","g","e"," ","i","n"," ","m","o","t","i","o","n">>,
     <<"R","a","n","d","o","m"," ","f","a","c","t">> >>
InertiaCards ==
  << [q |-> <<"W","h","a","t"," ","i","s"," ","i","n","e","r","t","i","a","?">>, a |-> <<"R","e","s","i","s","t","a","n","c","e"," ","t","o"," ","c","h","a","n","g","e"," ","i","n"," ","m","o","t","i","o","n">>],
     [q |-> <<"R","a","n","d","o","m"," ","f","a","c","t">>, a |-> <<>>] >>

\* C11: for every sequence of filtered runs the cards of flashcards-json, before the
\* header drop and the label stripping, are the cards of the pairing rules (a question
\* run emits the pending question with an empty answer and becomes pending, an answer
\* run completes the pending question or is ignored, any other run becomes pending or
\* completes the pending question, a question pending at the end is emitted with an
\* empty answer); the three runs of the inertia example give its two cards.
C11_PairingFollowsRules ==
  (pv.endpoint = "flashcards-json" /\ pv.status = 200) =>
    /\ pv.paired = PairingRules(pv.texts, <<>>)
    /\ pv.texts = InertiaRuns => pv.paired = InertiaCards

\* C11 witness: the answered request whose document holds the three runs of the example
C11_Witness ==
  /\ pv.endpoint = "flashcards-json" /\ pv.status = 200
  /\ pv.texts = InertiaRuns
  /\ pv.paired = InertiaCards

\* ----------------------------------------------------- C12: path-like runs
\* the entire run is a path: a drive, UNC or slash marker at its start, no whitespace
\* after it, and one of the three extensions at its end
WholePath(t) ==
  \E d \in 1..Len(t) :
    /\ t[d] = "."
    /\ \E ext \in { <<"p","d","f">>, <<"t","x","t">>, <<"d","o","c","x">> } :
         d + Len(ext) = Len(t) /\ WordAt(t, d + 1, ext)
    /\ \E e \in 1..(d - 2) :
         /\ \/ e = 1 /\ t[1] = "/"
            \/ e = 2 /\ t[1] = "\\" /\ t[2] = "\\"
            \/ e = 3 /\ toLowerCase(t[1]) \in Letters /\ t[2] = ":" /\ t[3] = "\\"
         /\ \A m \in (e + 1)..(d - 1) : t[m] \notin Whitespace

NotWholePath(t) == ~WholePath(t)

\* C12: in every HTML preview the paragraphs are, in document order, exactly the runs
\* whose entire content is not a path ending in pdf, txt or docx: such a path is
\* excluded and every other run is a paragraph of its own.
C12_ExactlyWholePathsExcluded ==
  (pv.endpoint \in PreviewEndpoints \ {"flashcards-json"} /\ pv.status = 200) =>
    pv.paragraphs = SelectSeq(pv.runs, NotWholePath)

\* ------------------------------------------------- C13: missing documents
\* the handler answers the pending preview request in this step
PreviewAnswered == pv.endpoint # "none" /\ pv.status = 0 /\ pv'.status # 0

\* the file the pending preview request opens exists
ArtifactExists == existsSync(docxPath(pv.endpoint, pv.file))

\* C13 as stated: a preview request is answered 404 when the artifact file does not
\* exist and also when the artifact is an archive without its main document XML part.
C13_NotFoundWithoutDocumentPart ==
  [][PreviewAnswered =>
       ((~ArtifactExists \/ (pv.doc.zip /\ ~pv.doc.entry)) => pv'.status = 404)]_vars

\* C13 amended: a preview request is answered 404 exactly when the artifact file does
\* not exist; when the artifact is an archive without its main document XML part the
\* answer is a successful preview without paragraphs or cards.
C13_NotFoundOnlyWithoutFile ==
  [][PreviewAnswered =>
       /\ pv'.status = 404 <=> ~ArtifactExists
       /\ (ArtifactExists /\ pv.doc.zip /\ ~pv.doc.entry) =>
            /\ pv'.status = 200
            /\ IF pv.endpoint = "flashcards-json" THEN pv'.cards = <<>>
               ELSE pv'.paragraphs = <<>>]_vars

\* C13 witness: an existing artifact without the document part was previewed
C13_Witness ==
  /\ pv.endpoint \in PreviewEndpoints /\ pv.status = 200
  /\ ~pv.entry
  /\ existsSync(pv.path)

\* -------------------------------------------- C14: no database connection
\* the route answers the request it is handling in this step
ApiAnswered == api.endpoint # "none" /\ api.status = 0 /\ api'.status # 0

\* the request carries what its route asks for: credentials, or a token that verifies
WellFormed(req) ==
  IF req.endpoint \in {"register", "login"}
    THEN req.email # "" /\ req.password # ""
    ELSE authRequired(req.token)

\* C14: while no database is connected, every well-formed request to register, login,
\* current user, history list and history clear is answered 503; a run request whose
\* subprocess closes in that state gets its report and no history entry is written
\* or scheduled.
C14_UnavailableWithoutDatabase ==
  [][readyState = 0 =>
       /\ (ApiAnswered /\ WellFormed(api.request)) => api'.status = 503
       /\ history' = history /\ histPending' \subseteq histPending
       /\ \A r \in RunIds :
            (~responded[r] /\ responded'[r]) =>
              (res'[r] # <<>> /\ IsReport(res'[r][Len(res'[r])]))]_vars

\* ------------------------------------------------------ C15: history pages
\* the stored entries of a user, and the position of one of them when the user's
\* entries are ordered by timestamp descending (first position 0)
Owned(userId) == {k \in 1..Len(history) : history[k].userId = userId}
Position(userId, k) ==
  Cardinality({j \in Owned(userId) : history[j].timestamp > history[k].timestamp})

\* the page asked for (1 when the parameter is missing), the limit clamped to
\* 1..MAX_LIMIT (DEFAULT_LIMIT when the parameter is missing)
AskedPage(req) == IF req.page = <<>> THEN 1 ELSE req.page[1]
ClampedLimit(req) ==
  IF req.limit = <<>> THEN DEFAULT_LIMIT
  ELSE IF req.limit[1] < 1 THEN 1
  ELSE IF req.limit[1] > MAX_LIMIT THEN MAX_LIMIT
  ELSE req.limit[1]

\* C15: a history-list request of an authenticated user with page p >= 1 and limit l
\* that the database serves is answered with total = N, the number of entries the
\* user owns, and with exactly the entries at positions (p-1)*l .. min(p*l, N)-1 of
\* the user's entries in descending timestamp order, none of them of another user.
C15_PageOfOwnEntries ==
  [][(ApiAnswered /\ api.endpoint = "history-list" /\ api'.status = 200
        /\ AskedPage(api.request) >= 1) =>
       LET userId == attachAuthIfPresent(api.request.token)
           N == Cardinality(Owned(userId))
           p == AskedPage(api.request)
           l == ClampedLimit(api.request)
           first == (p - 1) * l
           last == (IF p * l < N THEN p * l ELSE N) - 1
       IN /\ api'.total = N
          /\ Len(api'.items) = (IF last >= first THEN last - first + 1 ELSE 0)
          /\ \A i \in 1..Len(api'.items) :
               /\ api'.items[i].userId = userId
               /\ \E k \in Owned(userId) :
                    history[k] = api'.items[i] /\ Position(userId, k) = first + i - 1]_vars

\* C15 witness: user 1 owns 15 entries next to those of user 2, and page 2 with
\* limit 10 was answered with 5 items and total 15
C15_Witness ==
  /\ api.endpoint = "history-list" /\ api.status = 200
  /\ api.request.page = <<2>> /\ api.request.limit = <<10>>
  /\ Cardinality(Owned(1)) = 15 /\ Owned(2) # {}
  /\ Len(api.items) = 5 /\ api.total = 15

\* ------------------------------------------- C16: output ends the retry chain
\* no candidate after one that has produced output
NoSpawnAfterOutput ==
  \A r \in RunIds : \A i \in 1..Len(child[r]) :
    child[r][i].started => i = Len(child[r])

\* C16: once a candidate has produced output no later candidate is spawned for the
\* request, and when that candidate has exited non-zero or emitted an error the one
\* response of the request is its outcome: its failure report, or its spawn error.
C16_OutputEndsTheChain ==
  /\ NoSpawnAfterOutput
  /\ \A r \in RunIds : \A i \in 1..Len(child[r]) :
       LET c == child[r][i] IN
       /\ (c.started /\ Exited(c) /\ c.code # 0) =>
            /\ Len(res[r]) = 1 /\ IsReport(res[r][1])
            /\ ~res[r][1].ok /\ res[r][1].code = c.code /\ res[r][1].logs = c.logs
       /\ (c.started /\ c.errored) =>
            /\ Len(res[r]) = 1
            /\ res[r][1] = SpawnError(c.logs)

\* ---------------------------------------------- C17: a response in the end
\* a subprocess that has not emitted 'error' or 'close' yet
Unfinished(c) == c.state \in {"failing", "running"}

\* C17: when every spawned subprocess eventually emits 'error' or 'close', every run
\* request eventually has a response; and whenever a request is without a response,
\* one of its subprocesses has not emitted 'error' or 'close' yet.
C17_EventuallyAnswered ==
  /\ \A r \in RunIds : (run[r].pc = "called") ~> (res[r] # <<>>)
  /\ [](\A r \in RunIds :
          (run[r].pc = "called" /\ res[r] = <<>>) =>
            \E i \in 1..Len(child[r]) : Unfinished(child[r][i]))

\* C17 witness: a request answered after both of its candidates failed to spawn
C17_Witness ==
  \E r \in RunIds :
    /\ Len(child[r]) = Len(candidates)
    /\ \A i \in 1..Len(child[r]) : SpawnFailed(child[r][i])
    /\ res[r] # <<>>

\* ------------------------------------------- C18: one attempt at a time
\* two run requests each have a subprocess running in the shared directories
TwoRequestsRunning ==
  \E r1 \in RunIds, r2 \in RunIds :
    /\ r1 # r2
    /\ \E i \in 1..Len(child[r1]) : child[r1][i].state = "running"
    /\ \E i \in 1..Len(child[r2]) : child[r2][i].state = "running"

Override == trimmed(env.PYTHON_EXEC)
Launchers == (IF env.platform = "win32" THEN <<"py">> ELSE <<>>) \o <<"python", "python3">>
VenvNames == {venvWin, venvNix}

\* candidate exe was tried for the request and could not be spawned
TriedInVain(r, exe) ==
  \E j \in 1..Len(child[r]) : child[r][j].exe = exe /\ SpawnFailed(child[r][j])

\* C19 as stated: whenever PYTHON_EXEC is set the list is the override, then the
\* platform launcher, then the generic names, so the job is run by the override
\* unless the override could not be spawned.
C19_OverrideFirst ==
  Override # "" =>
    /\ candidates[1] = Override
    /\ SubSeq(candidates, Len(candidates) - Len(Launchers) + 1, Len(candidates)) = Launchers
    /\ \A r \in RunIds : \A i \in 1..Len(child[r]) :
         (child[r][i].state = "running" /\ child[r][i].exe # Override) =>
           TriedInVain(r, Override)

\* C19 amended: whenever PYTHON_EXEC is set the list is the existing .venv
\* interpreters (Windows one before the POSIX one), then the override, then the
\* platform launcher, then the generic names, so the job is run by the override
\* unless an existing .venv interpreter runs it or the override could not be spawned.
C19_VenvThenOverride ==
  Override # "" =>
    /\ \E k \in 1..Len(candidates) :
         /\ candidates[k] = Override
         /\ SubSeq(candidates, k + 1, Len(candidates)) = Launchers
         /\ \A j \in 1..(k - 1) : candidates[j] \in VenvNames
         /\ k - 1 = Cardinality({v \in {"venvWin", "venvNix"} : env[v]})
         /\ (env.venvWin /\ env.venvNix) => candidates[1] = venvWin
    /\ \A r \in RunIds : \A i \in 1..Len(child[r]) :
         (child[r][i].state = "running" /\ child[r][i].exe # Override) =>
           \/ child[r][i].exe \in VenvNames
           \/ TriedInVain(r, Override)

\* C19 witness: PYTHON_EXEC is set, yet the interpreter of an existing .venv runs the
\* job and the override was never tried
C19_Witness ==
  /\ Override # ""
  /\ \E r \in RunIds : \E i \in 1..Len(child[r]) :
       /\ child[r][i].state = "running"
       /\ child[r][i].exe \in VenvNames
       /\ \A j \in 1..Len(child[r]) : child[r][j].exe # Override

\* ------------------------------------------------------- C20: header card
\* the number of words of a string: its maximal runs of characters other than whitespace
WordCount(s) ==
  Cardinality({k \in 1..Len(s) :
                 s[k] \notin Whitespace /\ (k = 1 \/ s[k - 1] \in Whitespace)})

\* the string begins with one of the header words, in any case
BeginsWithHeaderWord(s) ==
  \E w \in { <<"f","l","a","s","h","c","a","r","d">>, <<"f","l","a","s","h","c","a","r","d","s">>, <<"s","u","m","m","a","r","y">>, <<"c","o","n","t","e","n","t">>,
             <<"c","o","n","t","e","n","t","s">>, <<"s","t","u","d","y">> } :
    /\ Len(s) >= Len(w)
    /\ \A m \in 1..Len(w) : toLowerCase(s[m]) = w[m]

HeaderLike(card) ==
  \/ card.a = <<>>
  \/ WordCount(card.q) < 3
  \/ BeginsWithHeaderWord(card.q)

\* C20: after pairing, the first card is discarded exactly when its answer is empty,
\* or its question has fewer than 3 words, or its question begins with flashcard(s),
\* summary, content(s) or study in any case; every other card is kept, so at most
\* one card is removed.
C20_OnlyHeaderCardDropped ==
  (pv.endpoint = "flashcards-json" /\ pv.status = 200) =>
    /\ pv.kept = IF pv.paired # <<>> /\ HeaderLike(pv.paired[1]) THEN Tail(pv.paired)
                 ELSE pv.paired
    /\ Len(pv.kept) >= Len(pv.paired) - 1

\* C20 witness: the first of two cards has an answer and a question of four words
\* that begins with a header word, and only this card was discarded
C20_Witness ==
  /\ pv.endpoint = "flashcards-json" /\ pv.status = 200
  /\ Len(pv.paired) = 2
  /\ pv.paired[1].a # <<>> /\ WordCount(pv.paired[1].q) >= 3
  /\ pv.kept = <<pv.paired[2]>>

\* ------------------------------------------- C21: previews stay in outputs/
\* the path names a file directly inside the output directory
InsideOutputs(path) == Len(path) = 2 /\ SubSeq(path, 1, 1) = OUTPUTS_DIR

\* C21: whatever the file parameter is, a preview endpoint that has opened a file
\* (answered 200, or 500 for a file that is no archive) opened one located inside
\* the output directory.
C21_PreviewReadsOnlyOutputs ==
  (pv.endpoint \in PreviewEndpoints /\ pv.status \in {200, 500}) =>
    InsideOutputs(pv.path)
\* ------------------------------------------------------- C22: label stripping
\* the text begins, after optional whitespace, with a label: the word Q, Question,
\* A or Answer in any case, followed by the end of the text, whitespace, a digit or
\* one of : . ) - ; or with a bullet or dash marker
BeginsWithLabel(s) ==
  LET i == SkipSpace(s, 1)
  IN \/ i <= Len(s) /\ s[i] \in {Bullet, "-"}
     \/ \E w \in { <<"q">>, <<"q","u","e","s","t","i","o","n">>,
                   <<"a">>, <<"a","n","s","w","e","r">> } :
          /\ i + Len(w) - 1 <= Len(s)
          /\ \A m \in 1..Len(w) : toLowerCase(s[i + m - 1]) = w[m]
          /\ \/ i + Len(w) > Len(s)
             \/ s[i + Len(w)] \in Whitespace \cup Digits \cup {":", ".", ")", "-"}

\* C22: for every card of a flashcards answer, a question or answer that does not
\* begin with a label (Q, Question, A or Answer with optional number and
\* punctuation, or a bullet marker) is returned unchanged apart from trimming.
C22_OnlyLabelsStripped ==
  (pv.endpoint = "flashcards-json" /\ pv.status = 200) =>
    \A k \in 1..Len(pv.kept) :
      /\ ~BeginsWithLabel(pv.kept[k].q) => pv.cards[k].q = trim(pv.kept[k].q)
      /\ ~BeginsWithLabel(pv.kept[k].a) => pv.cards[k].a = trim(pv.kept[k].a)

====
